---- MODULE Spec2Model ----
(***************************************************************************)
(* The shared MCP connection pool of src/src/connections.py as a state     *)
(* machine.  The pool runs on one asyncio event loop: a task runs          *)
(* atomically from one suspension point (an await that really waits) to    *)
(* the next, so every action below is one such run.  Suspension points     *)
(* are: waiting for the contended pool lock, the transport spawn, the      *)
(* session open, session.initialize(), a protocol call inside a session    *)
(* scope, and the two __aexit__ calls of a teardown.  An uncontended       *)
(* asyncio.Lock is taken without suspending; the per-connection lock is    *)
(* never held across an await, so acquire()/release() never suspend.       *)
(***************************************************************************)
EXTENDS Integers, Sequences, FiniteSets, TLC

\* ---------------------------------------------------------------- bounds
NumTasks == 2          \* concurrent asyncio tasks calling into the pool
MaxOps   == 4          \* operations started in one behaviour
MaxConn  == 2          \* SharedConnection objects created in one behaviour
MaxLiveOps == 4        \* operations started on the running pool (SpecLive)
MaxCalls == 6          \* direct acquire()/release() calls (SpecRef)
MaxWarmOps == 2        \* operations started on the warm pool (SpecWarm)
MaxWrap  == 2          \* MCPServerWrapper objects created in one behaviour

Tasks   == 1..NumTasks
ConnIds == 1..MaxConn
WrapIds == 1..MaxWrap
Names   == {"a", "b"}
NoName  == "-"

\* TransportType (connections.py:22-27)
TransportType == {"stdio", "sse", "streamable_http"}

\* MCPServerConfig values used as inputs: name is the dict key, command
\* stands for the launch parameters (command, args, env, url).
\* Every transport of TransportType occurs.
ConfigValues ==
    {[transport |-> "stdio", command |-> "c1"],
     [transport |-> "stdio", command |-> "c2"],
     [transport |-> "sse", command |-> "c1"],
     [transport |-> "streamable_http", command |-> "c1"]}

VARIABLES
    running,           \* MCPConnectionPool._running
    configs,           \* MCPConnectionPool._configs: the dict's entry log
    connections,       \* MCPConnectionPool._connections: <<[name, conn]>>
    context_managers,  \* MCPConnectionPool._context_managers
    conns,             \* heap of SharedConnection objects and their resources
    poolLock,          \* MCPConnectionPool._lock: [holder, waiters]
    tasks,             \* per task: position and locals of its coroutine
    opsLeft,           \* operations that may still be started
    calls,             \* bookkeeping of direct acquire()/release() calls
    registry           \* MCPServerRegistry._servers and its wrapper objects

vars == <<running, configs, connections, context_managers, conns, poolLock,
          tasks, opsLeft, calls, registry>>

\* ------------------------------------------------------- the _configs dict
\* A Python dict is an append-only log of entries; a deleted key leaves a
\* dead entry behind, and iteration walks the log skipping dead entries.
LiveIdx(log) == {i \in 1..Len(log) : log[i].live}

DictHas(log, name) == \E i \in LiveIdx(log) : log[i].name = name

DictGet(log, name) ==
    log[CHOOSE i \in LiveIdx(log) : log[i].name = name].value

DictSize(log) == Cardinality(LiveIdx(log))

DictKeys(log) == {log[i].name : i \in LiveIdx(log)}

DictSet(log, name, value) ==
    IF DictHas(log, name)
    THEN [i \in 1..Len(log) |->
            IF log[i].live /\ log[i].name = name
            THEN [log[i] EXCEPT !.value = value] ELSE log[i]]
    ELSE Append(log, [name |-> name, value |-> value, live |-> TRUE])

DictPop(log, name) ==
    [i \in 1..Len(log) |->
        IF log[i].live /\ log[i].name = name
        THEN [log[i] EXCEPT !.live = FALSE] ELSE log[i]]

\* ---------------------------------------------------- the _connections dict
\* Only list(keys()) is taken of it, so the live keys in insertion order
\* are enough.
RECURSIVE SeqWithout(_, _)
SeqWithout(s, name) ==
    IF s = <<>> THEN <<>>
    ELSE IF Head(s).name = name THEN SeqWithout(Tail(s), name)
    ELSE <<Head(s)>> \o SeqWithout(Tail(s), name)

HasConn(cs, name) == \E i \in 1..Len(cs) : cs[i].name = name

ConnOf(cs, name) == cs[CHOOSE i \in 1..Len(cs) : cs[i].name = name].conn

ConnKeys(cs) == [i \in 1..Len(cs) |-> cs[i].name]

ConnSet(cs, name, c) ==
    IF HasConn(cs, name)
    THEN [i \in 1..Len(cs) |->
            IF cs[i].name = name THEN [cs[i] EXCEPT !.conn = c] ELSE cs[i]]
    ELSE Append(cs, [name |-> name, conn |-> c])

ConnPop(cs, name) == SeqWithout(cs, name)

\* ------------------------------------------------ SharedConnection objects
\* Object c is allocated by SharedConnection(config=config).  The record
\* also carries the two external capabilities its creation opens: the
\* transport (stdio_client) and the session (ClientSession); opened counts
\* nothing but whether __aenter__ returned, closes counts __aexit__ calls,
\* failed records an __aexit__ that raised.
NewConn ==
    [alloc |-> FALSE, name |-> NoName, session |-> FALSE, refCount |-> 0,
     connected |-> FALSE,
     tOpened |-> FALSE, tCloses |-> 0, sOpened |-> FALSE, sCloses |-> 0,
     initialized |-> FALSE, sFailed |-> FALSE, tFailed |-> FALSE]

\* SharedConnection.is_connected
is_connected(cn, c) == cn[c].connected /\ cn[c].session

\* SharedConnection.release: the new count, max(0, _ref_count - 1)
ReleaseCountNoFloor(rc) == rc - 1

ReleaseCount(rc) == IF rc - 1 > 0 THEN rc - 1 ELSE 0

\* SharedConnection.acquire: the count is incremented before the session
\* is looked at, so a failing acquire() still leaves it incremented.
AcquireConns(cn, c) == [cn EXCEPT ![c].refCount = @ + 1]

AcquireOk(cn, c) == cn[c].session

ReleaseConns(cn, c) == [cn EXCEPT ![c].refCount = ReleaseCount(@)]

\* ------------------------------------------------------------------ tasks
NoIter == [pos |-> 0, len |-> 0, used |-> 0]

NoTools == [n \in Names |-> "absent"]

IdleTask ==
    [pc |-> "idle", op |-> "none", name |-> NoName, conn |-> 0,
     result |-> "none", it |-> NoIter, tools |-> NoTools, snap |-> <<>>]

Finish(t, r) == [IdleTask EXCEPT !.result = r]

InConfigs(name) == DictHas(configs, name)

\* Per SharedConnection, the acquire() and release() calls made on it
\* directly: how many, how many release() calls found the count at 0, the
\* last call and the value the last release() returned.
NoCalls == [acq |-> 0, rel |-> 0, floored |-> 0, last |-> "none", ret |-> -1]

\* servers/__init__.py: a registry with no server (lines 198-199); wrapper
\* w is an MCPServerWrapper object with its config and _registered flag
\* (lines 52-54), servers maps a name to the wrapper stored under it.
NoWrapper ==
    [alloc |-> FALSE, name |-> NoName,
     config |-> [transport |-> "stdio", command |-> "c1"],
     registered |-> FALSE]

NoRegistry ==
    [servers |-> [n \in Names |-> 0], wrappers |-> [w \in WrapIds |-> NoWrapper]]

Init ==
    /\ running = FALSE
    /\ configs = <<>>
    /\ connections = <<>>
    /\ context_managers = [k \in Names \X {"transport", "session"} |-> 0]
    /\ conns = [c \in ConnIds |-> NewConn]
    /\ poolLock = [holder |-> 0, waiters |-> <<>>]
    /\ tasks = [t \in Tasks |-> IdleTask]
    /\ opsLeft = MaxOps
    /\ calls = [c \in ConnIds |-> NoCalls]
    /\ registry = NoRegistry

\* A task may start an operation when it is not inside one.  Tasks are
\* interchangeable callers, so the next call is made by the lowest-numbered
\* task that is not inside an operation.
CanStart(t) ==
    /\ tasks[t].pc = "idle"
    /\ opsLeft > 0
    /\ \A u \in 1..(t - 1) : tasks[u].pc # "idle"

\* ----------------------------------------------------------- add_server
add_serverOverwrite(t, name, cfg) ==
    /\ CanStart(t)
    /\ opsLeft' = opsLeft - 1
    /\ configs' = DictSet(configs, name, cfg)
    /\ tasks' = [tasks EXCEPT ![t] = Finish(t, IF InConfigs(name)
                                                THEN "already_configured"
                                                ELSE "ok")]
    /\ UNCHANGED <<running, connections, context_managers, conns, poolLock,
                   calls>>
    /\ UNCHANGED registry

add_server(t, name, cfg) ==
    /\ CanStart(t)
    /\ opsLeft' = opsLeft - 1
    /\ IF InConfigs(name)
       THEN /\ tasks' = [tasks EXCEPT ![t] = Finish(t, "already_configured")]
            /\ UNCHANGED configs
       ELSE /\ configs' = DictSet(configs, name, cfg)
            /\ tasks' = [tasks EXCEPT ![t] = Finish(t, "ok")]
    /\ UNCHANGED <<running, connections, context_managers, conns, poolLock,
                   calls>>
    /\ UNCHANGED registry

\* -------------------------------------------------------- remove_server
HasActive(name) ==
    HasConn(connections, name) /\ conns[ConnOf(connections, name)].refCount > 0

remove_serverKeepsConfig(t, name) ==
    /\ CanStart(t)
    /\ opsLeft' = opsLeft - 1
    /\ IF ~InConfigs(name)
       THEN /\ tasks' = [tasks EXCEPT ![t] = Finish(t, "not_found")]
            /\ UNCHANGED <<configs, connections>>
       ELSE IF HasActive(name)
       THEN /\ tasks' = [tasks EXCEPT ![t] = Finish(t, "active_connections")]
            /\ UNCHANGED <<configs, connections>>
       ELSE /\ connections' = ConnPop(connections, name)
            /\ tasks' = [tasks EXCEPT ![t] = Finish(t, "ok")]
            /\ UNCHANGED configs
    /\ UNCHANGED <<running, context_managers, conns, poolLock, calls>>
    /\ UNCHANGED registry

remove_server(t, name) ==
    /\ CanStart(t)
    /\ opsLeft' = opsLeft - 1
    /\ IF ~InConfigs(name)
       THEN /\ tasks' = [tasks EXCEPT ![t] = Finish(t, "not_found")]
            /\ UNCHANGED <<configs, connections>>
       ELSE IF HasActive(name)
       THEN /\ tasks' = [tasks EXCEPT ![t] = Finish(t, "active_connections")]
            /\ UNCHANGED <<configs, connections>>
       ELSE /\ configs' = DictPop(configs, name)
            /\ connections' = ConnPop(connections, name)
            /\ tasks' = [tasks EXCEPT ![t] = Finish(t, "ok")]
    /\ UNCHANGED <<running, context_managers, conns, poolLock, calls>>
    /\ UNCHANGED registry

\* ----------------------------------------------------------------- start
start(t) ==
    /\ CanStart(t)
    /\ opsLeft' = opsLeft - 1
    /\ running' = TRUE
    /\ tasks' = [tasks EXCEPT ![t] = Finish(t, "ok")]
    /\ UNCHANGED <<configs, connections, context_managers, conns, poolLock,
                   calls>>
    /\ UNCHANGED registry

\* --------------------------------------------------- the pool-wide lock
\* asyncio.Lock: acquire() returns at once when the lock is free and nobody
\* is queued, else the caller queues; release() unlocks and wakes the head
\* of the queue, which takes the lock when it next runs.
LockFreeNoMutex(lk) == TRUE

LockFree(lk) == lk.holder = 0 /\ lk.waiters = <<>>

LockTake(lk, t) == [lk EXCEPT !.holder = t]

LockQueue(lk, t) == [lk EXCEPT !.waiters = Append(@, t)]

LockReleaseNot(lk) == lk

LockRelease(lk) == [lk EXCEPT !.holder = 0]

\* ------------------------------------------------------------ get_session
\* The outcome of a run of get_session(name): kind is an error, or the
\* suspension point the run reaches ("wait": queued on the pool lock,
\* "create": awaiting the transport spawn with the lock held, "body":
\* inside the caller's scope with a reference acquired).
Outcome(kind, cn, lk, c) ==
    [kind |-> kind, conns |-> cn, lock |-> lk, conn |-> c]

Suspends == {"wait", "create", "body"}

PcOf(kind) ==
    CASE kind = "wait" -> "waitlock"
      [] kind = "create" -> "spawn"
      [] kind = "body" -> "body"

MinOf(S) == CHOOSE x \in S : \A y \in S : x <= y

\* Lines 262-263: the pool lock is released, then connection.acquire().
AcquireStep(cn, lk, c) ==
    IF AcquireOk(cn, c)
    THEN Outcome("body", AcquireConns(cn, c), LockRelease(lk), c)
    ELSE Outcome("uninitialized", AcquireConns(cn, c), LockRelease(lk), 0)

\* Lines 256-263, run by the holder of the pool lock, up to the first await
\* of _create_connection (lines 168-180).  "blocked" marks a creation that
\* would need more SharedConnection objects than the model allows.
NeedsCreate(name, cn) ==
    \/ ~HasConn(connections, name)
    \/ ~is_connected(cn, ConnOf(connections, name))

Locked(t, name, cn, lk) ==
    IF NeedsCreate(name, cn)
    THEN IF ~InConfigs(name)
         THEN Outcome("key_error", cn, LockRelease(lk), 0)
         ELSE IF DictGet(configs, name).transport = "stdio"
         THEN LET free == {c \in ConnIds : ~cn[c].alloc} IN
              IF free = {}
              THEN Outcome("blocked", cn, lk, 0)
              ELSE LET c == MinOf(free) IN
                   Outcome("create",
                           [cn EXCEPT ![c] = [NewConn EXCEPT !.alloc = TRUE,
                                                             !.name = name]],
                           lk, c)
         ELSE Outcome("not_implemented", cn, LockRelease(lk), 0)
    ELSE AcquireStep(cn, lk, ConnOf(connections, name))

\* Lines 249-255.
EnterConfigFirst(t, name, cn, lk) ==
    IF ~InConfigs(name) THEN Outcome("not_configured", cn, lk, 0)
    ELSE IF ~running THEN Outcome("not_running", cn, lk, 0)
    ELSE IF ~LockFree(lk) THEN Outcome("wait", cn, LockQueue(lk, t), 0)
    ELSE Locked(t, name, cn, LockTake(lk, t))

Enter(t, name, cn, lk) ==
    IF ~running THEN Outcome("not_running", cn, lk, 0)
    ELSE IF ~InConfigs(name) THEN Outcome("not_configured", cn, lk, 0)
    ELSE IF ~LockFree(lk) THEN Outcome("wait", cn, LockQueue(lk, t), 0)
    ELSE Locked(t, name, cn, LockTake(lk, t))

\* ---------------------------------------------------------- get_all_tools
\* next() of a dict iterator (CPython dictiter_iternextkey): fails when the
\* dict's size differs from the size at iter(), skips dead entries, fails
\* when it finds an entry after it has yielded as many as the dict had.
DictIter(log) == [pos |-> 0, len |-> DictSize(log), used |-> DictSize(log)]

DictNext(log, it) ==
    IF it.used # DictSize(log)
    THEN [status |-> "error", name |-> NoName, it |-> it]
    ELSE LET rest == {i \in LiveIdx(log) : i > it.pos} IN
         IF rest = {}
         THEN [status |-> "stop", name |-> NoName, it |-> it]
         ELSE IF it.len = 0
         THEN [status |-> "error", name |-> NoName, it |-> it]
         ELSE [status |-> "item", name |-> log[MinOf(rest)].name,
               it |-> [it EXCEPT !.pos = MinOf(rest), !.len = @ - 1]]

\* What a failed or completed session access leaves in the result of
\* get_all_tools (lines 283 and 286).
ToolsEntry(ok) == IF ok THEN "listed" ELSE "empty"

Pass(tk, cn, lk, blocked) ==
    [task |-> tk, conns |-> cn, lock |-> lk, blocked |-> blocked]

\* The for loop of get_all_tools (lines 279-287), run from the fetch of the
\* next name to the next suspension point or to the return.
RECURSIVE GatLoop(_, _, _, _)
GatLoop(t, tk, cn, lk) ==
    LET nx == DictNext(configs, tk.it) IN
    IF nx.status = "error"
    THEN Pass(Finish(t, "runtime_error"), cn, lk, FALSE)
    ELSE IF nx.status = "stop"
    THEN Pass([Finish(t, "tools") EXCEPT !.tools = tk.tools], cn, lk, FALSE)
    ELSE LET e == Enter(t, nx.name, cn, lk) IN
         IF e.kind = "blocked" THEN Pass(tk, cn, lk, TRUE)
         ELSE IF e.kind \in Suspends
         THEN Pass([tk EXCEPT !.pc = PcOf(e.kind), !.name = nx.name,
                               !.conn = e.conn, !.it = nx.it],
                   e.conns, e.lock, FALSE)
         ELSE GatLoop(t, [tk EXCEPT !.it = nx.it,
                                    !.tools[nx.name] = ToolsEntry(FALSE)],
                      e.conns, e.lock)

\* Where a task goes when its get_session(name) raised `res` or its scope
\* was left (res = "ok" or "body_error"): get_session and call_tool return
\* to their caller, get_all_tools records the entry and loops.
SessionExit(t, tk, res, cn, lk) ==
    IF tk.op = "get_all_tools"
    THEN GatLoop(t, [tk EXCEPT !.tools[tk.name] = ToolsEntry(res = "ok")],
                 cn, lk)
    ELSE Pass(Finish(t, res), cn, lk, FALSE)

\* Where a task goes after a run of get_session(name) with outcome e.
Continue(t, tk, e) ==
    IF e.kind = "blocked" THEN Pass(tk, e.conns, e.lock, TRUE)
    ELSE IF e.kind \in Suspends
    THEN Pass([tk EXCEPT !.pc = PcOf(e.kind), !.conn = e.conn],
              e.conns, e.lock, FALSE)
    ELSE SessionExit(t, tk, e.kind, e.conns, e.lock)

Commit(t, p) ==
    /\ ~p.blocked
    /\ tasks' = [tasks EXCEPT ![t] = p.task]
    /\ conns' = p.conns
    /\ poolLock' = p.lock

\* get_session(name) entered by a caller, or by call_tool (lines 302-304),
\* whose scope body is the protocol call.
SessionOps == {"get_session", "call_tool"}

get_session(t, op, name) ==
    /\ CanStart(t)
    /\ opsLeft' = opsLeft - 1
    /\ Commit(t, Continue(t, [IdleTask EXCEPT !.op = op, !.name = name],
                          Enter(t, name, conns, poolLock)))
    /\ UNCHANGED <<running, configs, connections, context_managers, calls>>
    /\ UNCHANGED registry

get_all_tools(t) ==
    /\ CanStart(t)
    /\ opsLeft' = opsLeft - 1
    /\ Commit(t, GatLoop(t, [IdleTask EXCEPT !.op = "get_all_tools",
                                              !.it = DictIter(configs)],
                         conns, poolLock))
    /\ UNCHANGED <<running, configs, connections, context_managers, calls>>
    /\ UNCHANGED registry

\* A task queued on the pool lock is woken by release() and takes the lock.
LockGranted(t) ==
    /\ tasks[t].pc = "waitlock"
    /\ poolLock.holder = 0
    /\ poolLock.waiters # <<>>
    /\ Head(poolLock.waiters) = t
    /\ Commit(t, Continue(t, tasks[t],
                  Locked(t, tasks[t].name, conns,
                         [holder |-> t, waiters |-> Tail(poolLock.waiters)])))
    /\ UNCHANGED <<running, configs, connections, context_managers, opsLeft,
                   calls>>
    /\ UNCHANGED registry

\* _create_connection fails: the error leaves the `async with self._lock`
\* block, which releases the lock, and get_session raises it.
CreateFailed(t, cn) ==
    Commit(t, SessionExit(t, tasks[t], "create_failed", cn,
                          LockRelease(poolLock)))

\* Lines 180-181: await cm.__aenter__() returns or raises.
SpawnDone(t, ok) ==
    /\ tasks[t].pc = "spawn"
    /\ LET c == tasks[t].conn
           name == tasks[t].name IN
       IF ok
       THEN /\ conns' = [conns EXCEPT ![c].tOpened = TRUE]
            /\ context_managers' =
                   [context_managers EXCEPT ![<<name, "transport">>] = c]
            /\ tasks' = [tasks EXCEPT ![t].pc = "sessopen"]
            /\ UNCHANGED poolLock
       ELSE /\ CreateFailed(t, conns)
            /\ UNCHANGED context_managers
    /\ UNCHANGED <<running, configs, connections, opsLeft, calls>>
    /\ UNCHANGED registry

\* Lines 184-186: await session_cm.__aenter__() returns or raises.
SessionOpened(t, ok) ==
    /\ tasks[t].pc = "sessopen"
    /\ LET c == tasks[t].conn
           name == tasks[t].name IN
       IF ok
       THEN /\ conns' = [conns EXCEPT ![c].sOpened = TRUE]
            /\ context_managers' =
                   [context_managers EXCEPT ![<<name, "session">>] = c]
            /\ tasks' = [tasks EXCEPT ![t].pc = "init"]
            /\ UNCHANGED poolLock
       ELSE /\ CreateFailed(t, conns)
            /\ UNCHANGED context_managers
    /\ UNCHANGED <<running, configs, connections, opsLeft, calls>>
    /\ UNCHANGED registry

\* Lines 191-192, reached when session.initialize() has returned:
\* connection.session = session; connection._connected = True.
MarkConnectedNoSession(cn, c) ==
    [cn EXCEPT ![c].initialized = TRUE, ![c].connected = TRUE]

MarkConnected(cn, c) ==
    [cn EXCEPT ![c].initialized = TRUE, ![c].session = TRUE,
               ![c].connected = TRUE]

\* Lines 189-198 and 258-263: await session.initialize() returns or raises;
\* on return the connection is stored and acquired.
InitDone(t, ok) ==
    /\ tasks[t].pc = "init"
    /\ LET c == tasks[t].conn
           name == tasks[t].name IN
       IF ok
       THEN LET cn == MarkConnected(conns, c) IN
            /\ connections' = ConnSet(connections, name, c)
            /\ Commit(t, Continue(t, tasks[t], AcquireStep(cn, poolLock, c)))
       ELSE /\ CreateFailed(t, conns)
            /\ UNCHANGED connections
    /\ UNCHANGED <<running, configs, context_managers, opsLeft, calls>>
    /\ UNCHANGED registry

\* Lines 265-270: the scope body ends, normally or with an error; is the
\* reference released on this exit path?
ReleasesOnExitOnlyOk(ok) == ok

ReleasesOnExit(ok) == TRUE

\* call_tool does not catch the error of session.call_tool (line 303).
BodyResult(op, ok) ==
    IF ok THEN "ok"
    ELSE IF op = "call_tool" THEN "protocol_error" ELSE "body_error"

BodyEnd(t, ok) ==
    /\ tasks[t].pc = "body"
    /\ LET c == tasks[t].conn
           cn == IF ReleasesOnExit(ok) THEN ReleaseConns(conns, c)
                 ELSE conns IN
       Commit(t, SessionExit(t, tasks[t], BodyResult(tasks[t].op, ok), cn,
                             poolLock))
    /\ UNCHANGED <<running, configs, connections, context_managers, opsLeft,
                   calls>>
    /\ UNCHANGED registry

\* ------------------------------------------------------------------- stop
\* stop() and _close_connection, run from one suspension point to the next.
\* The task's snap holds the names of list(self._connections.keys()) still
\* to be closed, name the one being closed.  The dicts are read again after
\* every await, as the code does.
StopPass(tk, cn, cms, cs) ==
    [task |-> tk, conns |-> cn, cms |-> cms, connections |-> cs]

\* Which capability __aexit__ is awaited first (lines 212-227).
FirstClosed == "session"

SecondClosed == IF FirstClosed = "session" THEN "transport" ELSE "session"

CloseCall(cn, c, which) ==
    IF which = "session"
    THEN [cn EXCEPT ![c].sCloses = @ + 1]
    ELSE [cn EXCEPT ![c].tCloses = @ + 1]

\* __aexit__ returned (ok) or raised.
CloseResult(cn, c, which, ok) ==
    IF ok THEN cn
    ELSE IF which = "session" THEN [cn EXCEPT ![c].sFailed = TRUE]
    ELSE [cn EXCEPT ![c].tFailed = TRUE]

\* Lines 217-218 and 225-226: `except Exception` logs the error of
\* __aexit__; does the error leave _close_connection?
CloseErrorLeavesOnFailure(ok) == ~ok

CloseErrorLeaves(ok) == FALSE

\* Line 210: connection._connected = False.
DisconnectNot(cn, c) == cn

Disconnect(cn, c) == [cn EXCEPT ![c].connected = FALSE]

RECURSIVE StopLoop(_, _, _, _, _)
RECURSIVE CloseEnd(_, _, _, _, _)
RECURSIVE CloseSecond(_, _, _, _, _)
RECURSIVE CloseFirst(_, _, _, _, _)

\* Lines 321-324: the next name of the snapshot; lines 206-210.
StopLoop(t, tk, cn, cms, cs) ==
    IF tk.snap = <<>>
    THEN StopPass(Finish(t, "stopped"), cn, cms, cs)
    ELSE LET name == Head(tk.snap)
             tk1 == [tk EXCEPT !.name = name, !.snap = Tail(tk.snap)] IN
         IF ~HasConn(cs, name)
         THEN StopLoop(t, tk1, cn, cms, cs)
         ELSE CloseFirst(t, tk1, Disconnect(cn, ConnOf(cs, name)), cms, cs)

\* Lines 213-216: the first __aexit__ is called when its handle is stored.
CloseFirst(t, tk, cn, cms, cs) ==
    LET k == <<tk.name, FirstClosed>> IN
    IF cms[k] # 0
    THEN StopPass([tk EXCEPT !.pc = "close_first", !.conn = cms[k]],
                  CloseCall(cn, cms[k], FirstClosed), cms, cs)
    ELSE CloseSecond(t, tk, cn, cms, cs)

\* Lines 222-224: the second __aexit__.
CloseSecond(t, tk, cn, cms, cs) ==
    LET k == <<tk.name, SecondClosed>> IN
    IF cms[k] # 0
    THEN StopPass([tk EXCEPT !.pc = "close_second", !.conn = cms[k]],
                  CloseCall(cn, cms[k], SecondClosed), cms, cs)
    ELSE CloseEnd(t, tk, cn, cms, cs)

\* Line 229: del self._connections[name] raises KeyError when the entry is
\* gone; the error leaves stop().
CloseEnd(t, tk, cn, cms, cs) ==
    IF ~HasConn(cs, tk.name)
    THEN StopPass(Finish(t, "key_error"), cn, cms, cs)
    ELSE StopLoop(t, tk, cn, cms, ConnPop(cs, tk.name))

CommitStop(t, p) ==
    /\ tasks' = [tasks EXCEPT ![t] = p.task]
    /\ conns' = p.conns
    /\ context_managers' = p.cms
    /\ connections' = p.connections

\* Lines 313-322.
stop(t) ==
    /\ CanStart(t)
    /\ opsLeft' = opsLeft - 1
    /\ running' = FALSE
    /\ CommitStop(t, StopLoop(t, [IdleTask EXCEPT !.op = "stop",
                                     !.snap = ConnKeys(connections)],
                              conns, context_managers, connections))
    /\ UNCHANGED <<configs, poolLock, calls>>
    /\ UNCHANGED registry

\* Lines 216-219: the session __aexit__ called on the handle tasks[t].conn
\* returned or raised (the error is swallowed); del of the handle raises
\* KeyError when it is gone.
FirstCloseDone(t, ok) ==
    /\ tasks[t].pc = "close_first"
    /\ LET k == <<tasks[t].name, FirstClosed>>
           cn == CloseResult(conns, tasks[t].conn, FirstClosed, ok)
           tk == [tasks[t] EXCEPT !.pc = "idle", !.conn = 0] IN
       IF CloseErrorLeaves(ok)
       THEN CommitStop(t, StopPass(Finish(t, "close_failed"), cn,
                                   context_managers, connections))
       ELSE IF context_managers[k] = 0
       THEN CommitStop(t, StopPass(Finish(t, "key_error"), cn,
                                   context_managers, connections))
       ELSE CommitStop(t, CloseSecond(t, tk, cn,
                                      [context_managers EXCEPT ![k] = 0],
                                      connections))
    /\ UNCHANGED <<running, configs, poolLock, opsLeft, calls>>
    /\ UNCHANGED registry

\* Lines 224-229: the transport __aexit__ returned or raised.
SecondCloseDone(t, ok) ==
    /\ tasks[t].pc = "close_second"
    /\ LET k == <<tasks[t].name, SecondClosed>>
           cn == CloseResult(conns, tasks[t].conn, SecondClosed, ok)
           tk == [tasks[t] EXCEPT !.pc = "idle", !.conn = 0] IN
       IF CloseErrorLeaves(ok)
       THEN CommitStop(t, StopPass(Finish(t, "close_failed"), cn,
                                   context_managers, connections))
       ELSE IF context_managers[k] = 0
       THEN CommitStop(t, StopPass(Finish(t, "key_error"), cn,
                                   context_managers, connections))
       ELSE CommitStop(t, CloseEnd(t, tk, cn,
                                   [context_managers EXCEPT ![k] = 0],
                                   connections))
    /\ UNCHANGED <<running, configs, poolLock, opsLeft, calls>>
    /\ UNCHANGED registry

\* ------------------------------------- SharedConnection called directly
CallsMade == LET RECURSIVE Sum(_)
                 Sum(S) == IF S = {} THEN 0
                           ELSE LET c == MinOf(S) IN
                                calls[c].acq + calls[c].rel + Sum(S \ {c})
             IN Sum(ConnIds)

\* SharedConnection.acquire (lines 62-68) on a connection with a session.
acquire(c) ==
    /\ conns[c].alloc
    /\ CallsMade < MaxCalls
    /\ AcquireOk(conns, c)
    /\ conns' = AcquireConns(conns, c)
    /\ calls' = [calls EXCEPT ![c].acq = @ + 1, ![c].last = "acquire"]
    /\ UNCHANGED <<running, configs, connections, context_managers, poolLock,
                   tasks, opsLeft>>
    /\ UNCHANGED registry

\* SharedConnection.release (lines 70-74).
release(c) ==
    /\ conns[c].alloc
    /\ CallsMade < MaxCalls
    /\ conns' = ReleaseConns(conns, c)
    /\ calls' = [calls EXCEPT
                   ![c].rel = @ + 1,
                   ![c].floored = IF conns[c].refCount = 0 THEN @ + 1 ELSE @,
                   ![c].last = IF conns[c].refCount = 0
                               THEN "release_at_zero" ELSE "release",
                   ![c].ret = ReleaseCount(conns[c].refCount)]
    /\ UNCHANGED <<running, configs, connections, context_managers, poolLock,
                   tasks, opsLeft>>
    /\ UNCHANGED registry

Next ==
    \E t \in Tasks :
        \/ \E name \in Names, cfg \in ConfigValues : add_server(t, name, cfg)
        \/ \E name \in Names : remove_server(t, name)
        \/ start(t)
        \/ \E op \in SessionOps, name \in Names : get_session(t, op, name)
        \/ get_all_tools(t)
        \/ LockGranted(t)
        \/ \E ok \in BOOLEAN : SpawnDone(t, ok)
        \/ \E ok \in BOOLEAN : SessionOpened(t, ok)
        \/ \E ok \in BOOLEAN : InitDone(t, ok)
        \/ \E ok \in BOOLEAN : BodyEnd(t, ok)
        \/ stop(t)
        \/ \E ok \in BOOLEAN : FirstCloseDone(t, ok)
        \/ \E ok \in BOOLEAN : SecondCloseDone(t, ok)

Spec == Init /\ [][Next]_vars

\* The pool after add_server("a", stdio), add_server("b", stdio or sse) and
\* start(): the races between running operations start from here.
LiveConfigs ==
    {[transport |-> "stdio", command |-> "c2"],
     [transport |-> "sse", command |-> "c1"]}

InitLive ==
    /\ running = TRUE
    /\ \E cfg \in LiveConfigs :
          configs = <<[name |-> "a",
                       value |-> [transport |-> "stdio", command |-> "c1"],
                       live |-> TRUE],
                      [name |-> "b", value |-> cfg, live |-> TRUE]>>
    /\ connections = <<>>
    /\ context_managers = [k \in Names \X {"transport", "session"} |-> 0]
    /\ conns = [c \in ConnIds |-> NewConn]
    /\ poolLock = [holder |-> 0, waiters |-> <<>>]
    /\ tasks = [t \in Tasks |-> IdleTask]
    /\ opsLeft = MaxLiveOps
    /\ calls = [c \in ConnIds |-> NoCalls]
    /\ registry = NoRegistry

SpecLive == InitLive /\ [][Next]_vars

\* Every task calls get_session once on the running pool, in any
\* interleaving; nothing else runs.
NextOnce ==
    \E t \in Tasks :
        \/ \E op \in SessionOps, name \in Names :
              tasks[t].result = "none" /\ get_session(t, op, name)
        \/ LockGranted(t)
        \/ \E ok \in BOOLEAN : SpawnDone(t, ok)
        \/ \E ok \in BOOLEAN : SessionOpened(t, ok)
        \/ \E ok \in BOOLEAN : InitDone(t, ok)
        \/ \E ok \in BOOLEAN : BodyEnd(t, ok)

SpecOnce == InitLive /\ [][NextOnce]_vars

\* The same calls when every await ends: the spawn, the session open,
\* initialize() and the scope body return or raise, and the event loop runs
\* the task that release() of the pool lock woke.
FairOnce ==
    \A t \in Tasks :
       /\ WF_vars(LockGranted(t))
       /\ WF_vars(\E ok \in BOOLEAN : SpawnDone(t, ok))
       /\ WF_vars(\E ok \in BOOLEAN : SessionOpened(t, ok))
       /\ WF_vars(\E ok \in BOOLEAN : InitDone(t, ok))
       /\ WF_vars(\E ok \in BOOLEAN : BodyEnd(t, ok))

SpecOnceFair == SpecOnce /\ FairOnce

\* Two connected, idle connections (those of "a" and "b" after one
\* completed get_session each) whose acquire() and release() are called
\* directly, in any order.
ConnectedConn(name) ==
    [alloc |-> TRUE, name |-> name, session |-> TRUE, refCount |-> 0,
     connected |-> TRUE,
     tOpened |-> TRUE, tCloses |-> 0, sOpened |-> TRUE, sCloses |-> 0,
     initialized |-> TRUE, sFailed |-> FALSE, tFailed |-> FALSE]

InitRef ==
    /\ running = TRUE
    /\ configs = <<[name |-> "a",
                    value |-> [transport |-> "stdio", command |-> "c1"],
                    live |-> TRUE],
                   [name |-> "b",
                    value |-> [transport |-> "stdio", command |-> "c2"],
                    live |-> TRUE]>>
    /\ connections = <<[name |-> "a", conn |-> 1], [name |-> "b", conn |-> 2]>>
    /\ context_managers =
          [k \in Names \X {"transport", "session"} |->
              IF k[1] = "a" THEN 1 ELSE 2]
    /\ conns = [c \in ConnIds |->
                  IF c = 1 THEN ConnectedConn("a")
                  ELSE IF c = 2 THEN ConnectedConn("b") ELSE NewConn]
    /\ poolLock = [holder |-> 0, waiters |-> <<>>]
    /\ tasks = [t \in Tasks |-> IdleTask]
    /\ opsLeft = 0
    /\ calls = [c \in ConnIds |-> NoCalls]
    /\ registry = NoRegistry

NextRef == \E c \in ConnIds : acquire(c) \/ release(c)

SpecRef == InitRef /\ [][NextRef]_vars

\* The running pool after get_session("a") has completed once, and with
\* "b" configured and either connected the same way or not yet used: the
\* teardown of live connections and the calls that find one start here.
InitWarm ==
    /\ running = TRUE
    /\ configs = <<[name |-> "a",
                    value |-> [transport |-> "stdio", command |-> "c1"],
                    live |-> TRUE],
                   [name |-> "b",
                    value |-> [transport |-> "stdio", command |-> "c2"],
                    live |-> TRUE]>>
    /\ \E warm \in {{"a"}, {"a", "b"}} :
          /\ connections =
                IF "b" \in warm
                THEN <<[name |-> "a", conn |-> 1], [name |-> "b", conn |-> 2]>>
                ELSE <<[name |-> "a", conn |-> 1]>>
          /\ context_managers =
                [k \in Names \X {"transport", "session"} |->
                    IF k[1] \notin warm THEN 0
                    ELSE IF k[1] = "a" THEN 1 ELSE 2]
          /\ conns = [c \in ConnIds |->
                        IF c = 1 THEN ConnectedConn("a")
                        ELSE IF c = 2 /\ "b" \in warm THEN ConnectedConn("b")
                        ELSE NewConn]
    /\ poolLock = [holder |-> 0, waiters |-> <<>>]
    /\ tasks = [t \in Tasks |-> IdleTask]
    /\ opsLeft = MaxWarmOps
    /\ calls = [c \in ConnIds |-> NoCalls]
    /\ registry = NoRegistry

SpecWarm == InitWarm /\ [][Next]_vars

\* ------------------------------------- servers/__init__.py: the registry
\* MCPServerWrapper.register (lines 71-77) on wrapper w of registry reg:
\* pool.add_server raises when the name is configured, and the flag is set
\* only when it returned.
RegisterOutcome(w, reg) ==
    LET wr == reg.wrappers[w] IN
    IF wr.registered
    THEN [result |-> "ok", registry |-> reg, configs |-> configs]
    ELSE IF InConfigs(wr.name)
    THEN [result |-> "already_configured", registry |-> reg,
          configs |-> configs]
    ELSE [result |-> "ok",
          registry |-> [reg EXCEPT !.wrappers[w].registered = TRUE],
          configs |-> DictSet(configs, wr.name, wr.config)]

\* MCPServerWrapper.unregister (lines 79-88): the ValueError of
\* pool.remove_server (name not found, or active connections) is
\* swallowed and the flag is cleared in any case.
UnregisterOutcome(w, reg) ==
    LET wr == reg.wrappers[w]
        removes == InConfigs(wr.name) /\ ~HasActive(wr.name) IN
    IF ~wr.registered
    THEN [registry |-> reg, configs |-> configs, connections |-> connections]
    ELSE [registry |-> [reg EXCEPT !.wrappers[w].registered = FALSE],
          configs |-> IF removes THEN DictPop(configs, wr.name) ELSE configs,
          connections |-> IF removes THEN ConnPop(connections, wr.name)
                          ELSE connections]

\* MCPServerRegistry.add (lines 211-223): the wrapper is stored only when
\* register() returned.
add(t, name, cfg) ==
    /\ CanStart(t)
    /\ opsLeft' = opsLeft - 1
    /\ \E w \in WrapIds :
          /\ ~registry.wrappers[w].alloc
          /\ \A v \in 1..(w - 1) : registry.wrappers[v].alloc
          /\ LET made == [registry EXCEPT
                             !.wrappers[w] = [alloc |-> TRUE, name |-> name,
                                              config |-> cfg,
                                              registered |-> FALSE]]
                 out == RegisterOutcome(w, made) IN
             /\ registry' = IF out.result = "ok"
                             THEN [out.registry EXCEPT !.servers[name] = w]
                             ELSE registry
             /\ configs' = out.configs
             /\ tasks' = [tasks EXCEPT ![t] = Finish(t, out.result)]
    /\ UNCHANGED <<running, connections, context_managers, conns, poolLock,
                   calls>>

\* MCPServerRegistry.remove (lines 241-249).
remove(t, name) ==
    /\ CanStart(t)
    /\ opsLeft' = opsLeft - 1
    /\ LET w == registry.servers[name] IN
       IF w = 0
       THEN UNCHANGED <<registry, configs, connections>>
       ELSE LET out == UnregisterOutcome(w, registry) IN
            /\ registry' = [out.registry EXCEPT !.servers[name] = 0]
            /\ configs' = out.configs
            /\ connections' = out.connections
    /\ tasks' = [tasks EXCEPT ![t] = Finish(t, "ok")]
    /\ UNCHANGED <<running, context_managers, conns, poolLock, calls>>

\* MCPServerWrapper.register called on a wrapper that add() returned.
register(t, w) ==
    /\ CanStart(t)
    /\ registry.wrappers[w].alloc
    /\ opsLeft' = opsLeft - 1
    /\ LET out == RegisterOutcome(w, registry) IN
       /\ registry' = out.registry
       /\ configs' = out.configs
       /\ tasks' = [tasks EXCEPT ![t] = Finish(t, out.result)]
    /\ UNCHANGED <<running, connections, context_managers, conns, poolLock,
                   calls>>

\* MCPServerWrapper.unregister called on a wrapper that add() returned.
unregister(t, w) ==
    /\ CanStart(t)
    /\ registry.wrappers[w].alloc
    /\ opsLeft' = opsLeft - 1
    /\ LET out == UnregisterOutcome(w, registry) IN
       /\ registry' = out.registry
       /\ configs' = out.configs
       /\ connections' = out.connections
    /\ tasks' = [tasks EXCEPT ![t] = Finish(t, "ok")]
    /\ UNCHANGED <<running, context_managers, conns, poolLock, calls>>

\* A pool that is used through a registry only: servers are added and
\* removed by the registry and its wrappers, sessions are opened on them.
NextRegistry ==
    \E t \in Tasks :
        \/ \E name \in Names, cfg \in ConfigValues : add(t, name, cfg)
        \/ \E name \in Names : remove(t, name)
        \/ \E w \in WrapIds : register(t, w)
        \/ \E w \in WrapIds : unregister(t, w)
        \/ start(t)
        \/ \E op \in SessionOps, name \in Names : get_session(t, op, name)
        \/ LockGranted(t)
        \/ \E ok \in BOOLEAN : SpawnDone(t, ok)
        \/ \E ok \in BOOLEAN : SessionOpened(t, ok)
        \/ \E ok \in BOOLEAN : InitDone(t, ok)
        \/ \E ok \in BOOLEAN : BodyEnd(t, ok)

SpecRegistry == Init /\ [][NextRegistry]_vars

\* ================================================================ claims
InScope(c) == {t \in Tasks : tasks[t].pc = "body" /\ tasks[t].conn = c}

Creating == {t \in Tasks : tasks[t].pc \in {"spawn", "sessopen", "init"}}

Created(name) == {c \in ConnIds : conns[c].alloc /\ conns[c].name = name}

Quiet(t) == \A u \in Tasks \ {t} : tasks[u].pc = "idle"

\* A step in which t starts an operation: implied by every action that
\* starts one, and cheap to evaluate.
Starts(t) ==
    /\ opsLeft' = opsLeft - 1
    /\ tasks[t].pc = "idle"
    /\ \A u \in Tasks \ {t} : tasks'[u] = tasks[u]

\* A step in which stop() called by t returns normally.
StopReturns(t) ==
    /\ tasks'[t].pc = "idle"
    /\ tasks'[t].result = "stopped"
    /\ stop(t) \/ (tasks[t].op = "stop" /\ tasks[t].pc # "idle")

\* C1: when every task calls get_session once on the running pool, a name
\* never has two creations in flight; unless a creation failed, a name is
\* created (spawned, initialized) at most once and every task in scope on it
\* holds that one connection, whose refCount is the number of tasks in
\* scope: it is NumTasks when all of them are in scope on the name.
C1_OneCreation ==
    /\ \A n \in Names :
          Cardinality({t \in Creating : tasks[t].name = n}) <= 1
    /\ (\A t \in Tasks : tasks[t].result # "create_failed") =>
          \A n \in Names :
             /\ Cardinality(Created(n)) <= 1
             /\ \A t \in Tasks :
                   tasks[t].pc = "body" /\ tasks[t].name = n =>
                      /\ Created(n) = {tasks[t].conn}
                      /\ conns[tasks[t].conn].tOpened
                      /\ conns[tasks[t].conn].initialized
                      /\ conns[tasks[t].conn].refCount =
                            Cardinality(InScope(tasks[t].conn))
    /\ \A n \in Names :
          (\A t \in Tasks : tasks[t].pc = "body" /\ tasks[t].name = n) =>
             \E c \in ConnIds :
                /\ Created(n) = {c}
                /\ \A t \in Tasks : tasks[t].conn = c
                /\ conns[c].refCount = NumTasks

C1_Witness ==
    /\ \A t \in Tasks : tasks[t].pc = "body" /\ tasks[t].name = "a"
    /\ \E c \in ConnIds : conns[c].refCount = NumTasks

\* C2: on a connection with a session, under any order of direct acquire()
\* and release() calls, refCount is never negative and equals acquires
\* minus the releases that found it above 0; so after N acquires and N
\* releases none of which was an extra one issued at 0 it is 0; and a
\* release() issued at 0 leaves it at 0 and returns 0.
C2_RefCountBalanced ==
    \A c \in ConnIds :
       conns[c].session =>
          /\ conns[c].refCount >= 0
          /\ conns[c].refCount =
                calls[c].acq - (calls[c].rel - calls[c].floored)
          /\ (calls[c].floored = 0 /\ calls[c].acq = calls[c].rel) =>
                conns[c].refCount = 0
          /\ calls[c].last = "release_at_zero" =>
                conns[c].refCount = 0 /\ calls[c].ret = 0

C2_Witness ==
    \E c \in ConnIds :
       /\ calls[c].acq = 2
       /\ calls[c].rel = 3
       /\ calls[c].last = "release_at_zero"
       /\ conns[c].refCount = 0

\* C3: the refCount of every connection is the number of get_session
\* scopes open on it: each scope that acquired releases that connection
\* once when it is left, normally or by an error (also the protocol error
\* that leaves call_tool), so with no scope open the count is 0.
C3_ScopesReleased ==
    \A c \in ConnIds : conns[c].refCount = Cardinality(InScope(c))

C3_Witness ==
    \E t \in Tasks, c \in ConnIds :
       /\ tasks[t].result = "protocol_error"
       /\ conns[c].initialized
       /\ conns[c].refCount = 0
       /\ InScope(c) = {}

\* C4: a get_session or call_tool started while running is false fails with
\* the not-running error, whether or not the name is configured, and
\* changes nothing of the pool.
C4_NotRunningRefused ==
    [][\A t \in Tasks :
          (~running /\ Starts(t)) =>
             \A op \in SessionOps, name \in Names :
                get_session(t, op, name) =>
                   /\ tasks'[t].result = "not_running"
                   /\ UNCHANGED <<running, configs, connections,
                                  context_managers, conns, poolLock>>]_vars

C4_Witness ==
    /\ ~running
    /\ DictKeys(configs) = {"a"}
    /\ \E t \in Tasks : tasks[t].result = "not_running"

\* C5: remove_server(name) on a name whose connection has refCount > 0
\* fails with the 'has active connections' error and leaves configs,
\* connections and the connection objects unchanged.
C5_ActiveRemovalRefused ==
    [][\A t \in Tasks, name \in Names :
          (HasActive(name) /\ remove_server(t, name)) =>
             /\ tasks'[t].result = "active_connections"
             /\ UNCHANGED <<configs, connections, conns>>]_vars

\* C6: a configuration error changes no pool state: add_server of a name
\* already configured fails and keeps the stored config; remove_server and
\* get_session of a name absent from configs fail and leave configs and
\* connections as they were.
C6_ConfigErrorsKeepState ==
    [][\A t \in Tasks :
          Starts(t) =>
             \A name \in Names :
                IF InConfigs(name)
                THEN \A cfg \in ConfigValues :
                        add_server(t, name, cfg) =>
                           /\ tasks'[t].result = "already_configured"
                           /\ DictGet(configs', name) = DictGet(configs, name)
                           /\ UNCHANGED <<configs, connections,
                                          context_managers, conns>>
                ELSE /\ remove_server(t, name) =>
                           /\ tasks'[t].result = "not_found"
                           /\ UNCHANGED <<configs, connections,
                                          context_managers, conns>>
                     /\ \A op \in SessionOps :
                           get_session(t, op, name) =>
                              /\ tasks'[t].result \in
                                    {"not_running", "not_configured"}
                              /\ UNCHANGED <<configs, connections,
                                             context_managers, conns>>]_vars

C6_Witness ==
    /\ \E t \in Tasks : tasks[t].result = "already_configured"
    /\ DictKeys(configs) = {"a"}
    /\ DictGet(configs, "a").command = "c1"

\* C7: get_all_tools never raises, and what it returns has exactly one
\* entry for every name configured when it returns.
C7_AllToolsTotal ==
    [][\A t \in Tasks :
          /\ tasks'[t].result # "runtime_error"
          /\ (tasks'[t].result = "tools" /\ tasks'[t] # tasks[t]) =>
                {n \in Names : tasks'[t].tools[n] # "absent"} =
                   DictKeys(configs')]_vars

\* C8: no session or transport is closed twice, and when stop() returns
\* with no other operation in progress every session and transport that a
\* creation opened has been closed once.
C8_ClosedExactlyOnce ==
    [][/\ \A c \in ConnIds : conns'[c].tCloses <= 1 /\ conns'[c].sCloses <= 1
       /\ \A t \in Tasks :
             (StopReturns(t) /\ Quiet(t)) =>
                \A c \in ConnIds :
                   /\ conns'[c].tOpened => conns'[c].tCloses = 1
                   /\ conns'[c].sOpened => conns'[c].sCloses = 1]_vars

\* C9: when stop() returns with no other operation in progress, running is
\* false, connections is empty and no teardown handle is stored.
C9_StopLeavesNothing ==
    [][\A t \in Tasks :
          (StopReturns(t) /\ Quiet(t)) =>
             /\ ~running'
             /\ connections' = <<>>
             /\ \A k \in DOMAIN context_managers :
                   context_managers'[k] = 0]_vars

\* C10: a transport is never closed while the session opened on it is
\* still open: whenever __aexit__ of a transport is called, the session of
\* the same creation has been closed or was never opened.
C10_SessionClosedFirst ==
    [][\A c \in ConnIds :
          conns'[c].tCloses > conns[c].tCloses =>
             ~(conns[c].sOpened /\ conns[c].sCloses = 0)]_vars

\* The names of a snapshot list(self._connections.keys()).
SnapNames(snap) == {snap[i] : i \in 1..Len(snap)}

\* After a step of stop() by t, the loop of stop() is going on: it has
\* returned normally with no entry left for the names it still had to
\* close, or it awaits a close for one of those names.
StopGoesOn(t) ==
    \/ /\ tasks'[t].pc = "idle"
       /\ tasks'[t].result = "stopped"
       /\ \A n \in SnapNames(tasks[t].snap) : ~HasConn(connections', n)
    \/ /\ tasks'[t].pc \in {"close_first", "close_second"}
       /\ tasks'[t].name \in SnapNames(tasks[t].snap)
       /\ HasConn(connections', tasks'[t].name)

\* C11: an __aexit__ that raises during stop() is swallowed.  A failed
\* session close never ends stop() with the close error; the handle is
\* dropped and the transport close of the same server is attempted next.
\* A failed transport close (or a failed session close of a server without
\* transport handle) never ends stop() with the close error either; the
\* server's entry is removed from connections and stop() goes on to tear
\* down the other connections of its snapshot.  What is said of the handle
\* and of the entry is said while they are still stored, that is unless
\* another task deleted them during the await.
C11_CloseFailureSwallowed ==
    [][\A t \in Tasks :
          LET name == tasks[t].name
              k1 == <<name, FirstClosed>>
              k2 == <<name, SecondClosed>>
              h2 == context_managers[k2] IN
          /\ (tasks[t].pc = "close_first" /\ FirstCloseDone(t, FALSE)) =>
                /\ tasks'[t].result # "close_failed"
                /\ conns'[tasks[t].conn].sFailed
                /\ context_managers[k1] # 0 =>
                      /\ context_managers'[k1] = 0
                      /\ IF h2 # 0
                         THEN /\ tasks'[t].pc = "close_second"
                              /\ tasks'[t].name = name
                              /\ conns'[h2].tCloses = conns[h2].tCloses + 1
                         ELSE HasConn(connections, name) =>
                                 /\ ~HasConn(connections', name)
                                 /\ StopGoesOn(t)
          /\ (tasks[t].pc = "close_second" /\ SecondCloseDone(t, FALSE)) =>
                /\ tasks'[t].result # "close_failed"
                /\ conns'[tasks[t].conn].tFailed
                /\ (h2 # 0 /\ HasConn(connections, name)) =>
                      /\ context_managers'[k2] = 0
                      /\ ~HasConn(connections', name)
                      /\ StopGoesOn(t)]_vars

\* stop() has returned normally although the session close and the
\* transport close of "a" both raised; both closes of "b" were attempted
\* and no entry is left.
C11_Witness ==
    /\ \E t \in Tasks : tasks[t].result = "stopped"
    /\ \E c, d \in ConnIds :
          /\ conns[c].name = "a" /\ conns[c].sFailed /\ conns[c].tFailed
          /\ conns[c].sCloses = 1 /\ conns[c].tCloses = 1
          /\ conns[d].name = "b"
          /\ conns[d].sCloses = 1 /\ conns[d].tCloses = 1
    /\ connections = <<>>

\* A step in which the creation awaited by t fails.
CreationFails(t) ==
    /\ tasks[t].pc \in {"spawn", "sessopen", "init"}
    /\ \/ SpawnDone(t, FALSE)
       \/ SessionOpened(t, FALSE)
       \/ InitDone(t, FALSE)

\* C12: when the creation of a get_session or call_tool fails at the spawn,
\* the session open or initialize(), the caller gets the error, connections
\* and every refCount are unchanged, the pool lock is free, no teardown
\* handle of the half-created connection is kept, and the name has no
\* connected entry, so that the next get_session creates afresh.
C12_FailedCreationLeavesNothing ==
    [][\A t \in Tasks :
          (tasks[t].op \in SessionOps /\ CreationFails(t)) =>
             /\ tasks'[t].result = "create_failed"
             /\ connections' = connections
             /\ \A c \in ConnIds : conns'[c].refCount = conns[c].refCount
             /\ poolLock'.holder = 0
             /\ \A k \in DOMAIN context_managers :
                   context_managers'[k] # tasks[t].conn
             /\ \/ ~HasConn(connections', tasks[t].name)
                \/ ~is_connected(conns',
                                 ConnOf(connections', tasks[t].name))]_vars

\* The connection objects allocated so far.
Allocated(cn) == {c \in ConnIds : cn[c].alloc}

\* C13: add_server of a name not yet configured succeeds for an sse or
\* streamable_http config; on the running pool a get_session or call_tool of
\* a name so configured never enters its scope: it waits for the pool lock
\* or fails with the not-implemented error, also when it is granted the
\* lock, and it allocates no connection and leaves no entry for the name in
\* connections.
C13_NonStdioFailsLazily ==
    [][\A t \in Tasks, n \in Names :
          /\ (Starts(t) /\ ~InConfigs(n)) =>
                \A cfg \in ConfigValues :
                   (cfg.transport # "stdio" /\ add_server(t, n, cfg)) =>
                      /\ tasks'[t].result = "ok"
                      /\ DictHas(configs', n)
                      /\ DictGet(configs', n) = cfg
          /\ (/\ running
              /\ InConfigs(n)
              /\ DictGet(configs, n).transport # "stdio"
              /\ \/ Starts(t) /\ \E op \in SessionOps : get_session(t, op, n)
                 \/ /\ tasks[t].pc = "waitlock"
                    /\ tasks[t].op \in SessionOps
                    /\ tasks[t].name = n
                    /\ LockGranted(t)) =>
                /\ \/ tasks'[t].pc = "waitlock"
                   \/ tasks'[t].result = "not_implemented"
                /\ Allocated(conns') = Allocated(conns)
                /\ ~HasConn(connections', n)]_vars

\* C14: every name that is a key of connections is a key of configs.
C14_ConnectionsConfigured ==
    \A n \in Names : HasConn(connections, n) => InConfigs(n)

\* A step of stop() called by t: its call or one of its resumptions.
StopStep(t) ==
    \/ tasks[t].op = "stop" /\ tasks'[t] # tasks[t]
    \/ Starts(t) /\ stop(t)

\* C15: only stop() tears a connection down and removes its entry: an
\* entry leaves connections, and a session or transport is closed, only in
\* a step of stop(); the release() that brings refCount to 0 changes
\* nothing else of the connection and nothing of connections; and a
\* get_session of a name whose entry is connected enters its scope on that
\* connection without creating one.
C15_OnlyStopTearsDown ==
    [][/\ \A n \in Names :
             (HasConn(connections, n) /\ ~HasConn(connections', n)) =>
                \E t \in Tasks : StopStep(t)
       /\ \A c \in ConnIds :
             (\/ conns'[c].sCloses # conns[c].sCloses
              \/ conns'[c].tCloses # conns[c].tCloses) =>
                \E t \in Tasks : StopStep(t)
       /\ \A t \in Tasks :
             LET c == tasks[t].conn IN
             (/\ tasks[t].pc = "body"
              /\ tasks[t].op \in SessionOps
              /\ conns[c].refCount = 1
              /\ \E ok \in BOOLEAN : BodyEnd(t, ok)) =>
                /\ conns' = [conns EXCEPT ![c].refCount = 0]
                /\ connections' = connections
       /\ \A t \in Tasks, n \in Names :
             (/\ Starts(t)
              /\ running /\ InConfigs(n) /\ LockFree(poolLock)
              /\ ~NeedsCreate(n, conns)
              /\ \E op \in SessionOps : get_session(t, op, n)) =>
                /\ tasks'[t].pc = "body"
                /\ tasks'[t].conn = ConnOf(connections, n)
                /\ Allocated(conns') = Allocated(conns)]_vars

\* No connection of the name was ever established: no creation for it got
\* as far as lines 191-192.
NeverConnected(n) ==
    \A c \in ConnIds : conns[c].name = n => ~conns[c].initialized

\* C16: remove_server of a configured name that was never connected
\* succeeds; afterwards the name is in neither configs nor connections,
\* every other name has the config and the connection it had, and no
\* connection object or teardown handle has changed.
C16_UnusedRemovalClean ==
    [][\A t \in Tasks :
          Starts(t) =>
             \A n \in Names :
                (InConfigs(n) /\ NeverConnected(n) /\ remove_server(t, n)) =>
                   /\ tasks'[t].result = "ok"
                   /\ ~DictHas(configs', n)
                   /\ ~HasConn(connections', n)
                   /\ \A m \in Names \ {n} :
                         /\ DictHas(configs', m) = DictHas(configs, m)
                         /\ DictHas(configs, m) =>
                               DictGet(configs', m) = DictGet(configs, m)
                         /\ HasConn(connections', m) = HasConn(connections, m)
                         /\ HasConn(connections, m) =>
                               ConnOf(connections', m) = ConnOf(connections, m)
                   /\ UNCHANGED <<conns, context_managers>>]_vars

\* remove_server("b") has succeeded on the never connected "b" while "a"
\* keeps its config and its connection.
C16_Witness ==
    /\ \E t \in Tasks : tasks[t].result = "ok"
    /\ \E i \in 1..Len(configs) : configs[i].name = "b" /\ ~configs[i].live
    /\ ~InConfigs("b")
    /\ NeverConnected("b")
    /\ InConfigs("a") /\ DictGet(configs, "a").command = "c1"
    /\ connections = <<[name |-> "a", conn |-> 1]>>
    /\ is_connected(conns, 1)

\* C17: configs and connections change only in a step of the task that
\* holds the pool lock.
C17_MutationsUnderLock ==
    [][(configs' # configs \/ connections' # connections) =>
          \E t \in Tasks : poolLock.holder = t /\ tasks'[t] # tasks[t]]_vars

ConnectedHasSession(cn) ==
    \A c \in ConnIds : cn[c].connected => cn[c].session /\ cn[c].initialized

\* The names whose _close_connection passed line 206 in a step of stop()
\* by t that did not end in a KeyError.
Begun(t) ==
    LET before == IF tasks[t].op = "stop" THEN SnapNames(tasks[t].snap)
                  ELSE SnapNames(ConnKeys(connections))
    IN {n \in before \ SnapNames(tasks'[t].snap) : HasConn(connections, n)}

\* C18: every connection whose connected flag is true has a session, and
\* initialize() has returned on it; connected becomes true only in the step
\* in which initialize() of that connection returns; and when stop() begins
\* the teardown of a name, the connection stored under the name has
\* connected false before any close is awaited.
C18_ConnectedImpliesSession ==
    [][/\ ConnectedHasSession(conns)
       /\ ConnectedHasSession(conns')
       /\ \A c \in ConnIds :
             (~conns[c].connected /\ conns'[c].connected) =>
                \E t \in Tasks :
                   /\ tasks[t].pc = "init"
                   /\ tasks[t].conn = c
                   /\ InitDone(t, TRUE)
       /\ \A t \in Tasks :
             (StopStep(t) /\ tasks'[t].result # "key_error") =>
                \A n \in Begun(t) :
                   ~conns'[ConnOf(connections, n)].connected]_vars

\* stop() awaits the session close of a connection that initialize() had
\* connected and that is no longer connected.
C18_Witness ==
    \E t \in Tasks, c \in ConnIds :
       /\ tasks[t].pc = "close_first"
       /\ tasks[t].conn = c
       /\ conns[c].initialized /\ conns[c].session /\ conns[c].tOpened
       /\ ~conns[c].connected

\* C19: no operation ends with the 'not initialized' error of acquire(),
\* and whenever acquire() has incremented the refCount of a connection,
\* in get_session, call_tool or get_all_tools, that connection has a
\* session.
C19_AcquireFindsSession ==
    [][/\ \A t \in Tasks : tasks'[t].result # "uninitialized"
       /\ \A c \in ConnIds :
             conns'[c].refCount > conns[c].refCount => conns'[c].session]_vars

\* A creation that was overtaken by stop() has completed and its caller
\* has acquired the session while stop() is still closing another
\* connection.
C19_Witness ==
    \E t, u \in Tasks :
       /\ tasks[t].pc = "body"
       /\ tasks[t].name = "b"
       /\ conns[tasks[t].conn].refCount = 1
       /\ conns[tasks[t].conn].session
       /\ ~running
       /\ tasks[u].op = "stop"
       /\ tasks[u].pc \in {"close_first", "close_second"}
       /\ tasks[u].name = "a"
       /\ tasks[u].snap = <<>>
       /\ HasConn(connections, "b")

\* C20: at most one creation is in flight in the pool and its task holds
\* the pool lock; a get_session, call_tool or get_all_tools that starts
\* while a creation is in flight does not get past the pool lock for any
\* name, connected or not: it fails before the lock or queues on it; and a
\* task queued on the lock stays queued in every step taken while the
\* creation is in flight, so it waits for as long as the creation lasts.
C20_CreationBlocksPool ==
    [][/\ Cardinality(Creating) <= 1
       /\ \A t \in Creating : poolLock.holder = t
       /\ Creating # {} =>
             \A t \in Tasks :
                /\ tasks[t].pc = "waitlock" => tasks'[t].pc = "waitlock"
                /\ Starts(t) =>
                      /\ \A op \in SessionOps, n \in Names :
                            get_session(t, op, n) =>
                               /\ \/ tasks'[t].pc = "waitlock"
                                  \/ tasks'[t].result \in
                                        {"not_running", "not_configured"}
                               /\ conns' = conns
                      /\ get_all_tools(t) =>
                            /\ \/ tasks'[t].pc = "waitlock"
                               \/ tasks'[t].result \in
                                     {"tools", "runtime_error"}
                            /\ conns' = conns]_vars

\* The creation of "b" is in flight and a get_session of the connected "a"
\* is queued on the pool lock.
C20_Witness ==
    \E t, u \in Tasks :
       /\ tasks[t].pc = "init"
       /\ tasks[t].name = "b"
       /\ poolLock.holder = t
       /\ tasks[u].pc = "waitlock"
       /\ tasks[u].name = "a"
       /\ poolLock.waiters = <<u>>
       /\ HasConn(connections, "a")
       /\ is_connected(conns, ConnOf(connections, "a"))

\* Wrapper registration mirrors pool config presence.
Mirrors(reg, log) ==
    \A n \in Names :
       reg.servers[n] # 0 =>
          (reg.wrappers[reg.servers[n]].registered <=> DictHas(log, n))

\* C21: when the pool is used through the registry and its wrappers only,
\* every wrapper stored in the registry has its registered flag true
\* exactly when configs contains its name, and after remove(name) of a
\* stored name has returned the name is absent from configs, whatever the
\* refCount of its connection was.
C21_RegistrationMirrorsConfigs ==
    [][/\ Mirrors(registry', configs')
       /\ \A t \in Tasks :
             Starts(t) =>
                \A n \in Names :
                   (registry.servers[n] # 0 /\ remove(t, n)) =>
                      ~DictHas(configs', n)]_vars

\* The pool lock is held by a task only while it awaits a creation: when
\* acquire() or release() takes the per-connection lock (on entering and on
\* leaving the scope) the task does not hold the pool lock.
LockOnlyInCreation ==
    \A t \in Tasks : poolLock.holder = t => t \in Creating

BeforeScope(t) == tasks[t].pc \in {"waitlock", "spawn", "sessopen", "init"}

\* C22: no task holds the pool lock while it takes a per-connection lock;
\* and when every creation and every scope body terminates, every
\* get_session that waits for the pool lock or for its creation eventually
\* enters its scope or fails, and every entered scope is eventually left
\* with its reference released.
C22_NoLockDeadlock ==
    /\ []LockOnlyInCreation
    /\ \A t \in Tasks :
          /\ BeforeScope(t) ~> (tasks[t].pc = "body" \/ tasks[t].pc = "idle")
          /\ (tasks[t].pc = "body") ~> (tasks[t].pc = "idle")

\* Every task has been through a scope on the connection of "a", which
\* was created once, and the pool lock is free again.
C22_Witness ==
    /\ \A t \in Tasks : tasks[t].pc = "idle" /\ tasks[t].result = "ok"
    /\ poolLock = [holder |-> 0, waiters |-> <<>>]
    /\ Cardinality(Created("a")) = 1
    /\ Created("b") = {}
    /\ \A c \in ConnIds : conns[c].refCount = 0

\* C23: remove_server(name) does not succeed while a task is inside a
\* get_session scope on the name, between its acquire() and its release().
C23_NoRemovalInScope ==
    [][\A t \in Tasks :
          Starts(t) =>
             \A n \in Names :
                (/\ \E u \in Tasks :
                       tasks[u].pc = "body" /\ tasks[u].name = n
                 /\ remove_server(t, n)) =>
                   tasks'[t].result # "ok"]_vars

\* C24: __aexit__ of a session or of a transport is never called while
\* the refCount of its connection is greater than 0.
C24_NoTeardownInUse ==
    [][\A c \in ConnIds :
          (\/ conns'[c].sCloses > conns[c].sCloses
           \/ conns'[c].tCloses > conns[c].tCloses) =>
             conns[c].refCount = 0]_vars

\* C25: no connection is stored into connections and no acquire()
\* completes while running is false.
C25_NothingAfterStop ==
    [][/\ \A n \in Names :
             (/\ HasConn(connections', n)
              /\ \/ ~HasConn(connections, n)
                 \/ ConnOf(connections', n) # ConnOf(connections, n)) =>
                running
       /\ \A c \in ConnIds :
             conns'[c].refCount > conns[c].refCount => running]_vars
====
